---- MODULE Spec2Model ----
(***************************************************************************)
(* Liveness decision engine of clearView.                                  *)
(*                                                                         *)
(*  - python/server.py : gesture challenge server (LivenessValidator,      *)
(*    process_frame, /api/challenge, /analyze, /api/validate, /ws/video)   *)
(*  - python/auth/jwt_tokens.py : VerificationTokenManager                 *)
(*  - Silent-Face-Anti-Spoofing-master/server.py : SpoofService.analyze,   *)
(*    /analyze, /api/challenge, /api/validate                              *)
(*  - server.py : the mock backend (/api/challenge, /api/validate)         *)
(*                                                                         *)
(* Conventions.  A Python value that may be None is an optional: None is   *)
(* the empty tuple and Some(v) the one-element tuple.  Probabilities are   *)
(* fixed-point integers in units of 1/1000, pixel coordinates are          *)
(* fixed-point integers in units of 1/PixelScale pixel, landmark           *)
(* coordinates as delivered by the detector are normalised to the frame    *)
(* (units of 1/PixelScale of the frame's width or height), EAR values and  *)
(* angles are in hundredths.  Times are whole seconds of one clock, which  *)
(* datetime.utcnow().timestamp() and time.time() both read (the process    *)
(* runs in UTC).  A token is its payload and the key that signed it.       *)
(***************************************************************************)
EXTENDS Integers, Sequences, FiniteSets, TLC

VARIABLES
    sfModelPaths,       \* SpoofService.model_paths: number of .pth files (fixed at startup)
    sfReq,              \* last request seen by the Silent-Face server
    sfResp,             \* last response of the Silent-Face server
    rootReq,            \* last request handled by the root server.py
    rootResp,           \* last response of the root server.py
    ANTI_SPOOF_AVAILABLE, \* python/server.py: whether the real ensemble was loaded
    validator,          \* python/server.py: the module-level LivenessValidator
    uuidCount,          \* number of uuid4() values drawn so far
    clock,              \* time.time() in whole seconds
    issued,             \* responses returned by generate_challenge so far
    req,                \* last request handled by python/server.py
    resp,               \* last response of python/server.py
    nFrames,            \* frames handled so far
    tokens,             \* create_verification_token calls so far: arguments and token returned
    hist,               \* observer: process_frame calls (inputs and gesture results)
    ws                  \* the /ws/video connection: socket state, messages in flight, replies sent

vars == <<sfModelPaths, sfReq, sfResp, rootReq, rootResp, ANTI_SPOOF_AVAILABLE, validator, uuidCount,
          clock, issued, req, resp, nFrames, tokens, hist, ws>>

sfVars == <<sfModelPaths, sfReq, sfResp>>
rootVars == <<rootReq, rootResp>>
pyVars == <<ANTI_SPOOF_AVAILABLE, validator, uuidCount, clock, issued, req, resp,
            nFrames, tokens, hist, ws>>

None == <<>>
Some(x) == <<x>>
IsNone(o) == o = <<>>
Get(o) == o[1]

Max2(a, b) == IF a >= b THEN a ELSE b

(***************************************************************************)
(* Bounds of the model.                                                    *)
(***************************************************************************)
MaxModels == 2
MaxFrames == 2
MaxSessions == 2
MaxClock == 1
MaxVerdictFrames == 5
MaxObsFrames == 4
MaxWaveFrames == 5
MaxHalfDays == 3
MaxTokens == 2
MaxRingFrames == 17
MaxInterruptions == 2
MaxHashCalls == 2
MaxStreamFrames == 3

(***************************************************************************)
(* Silent-Face-Anti-Spoofing-master/server.py                              *)
(***************************************************************************)
MIN_CONFIDENCE == 980
MIN_BBOX_AREA == 6400

Vec(t) == [i \in 0..2 |-> t[i + 1]]

\* Softmax outputs a model can return: 3-class distributions summing to 1 (1000 units).
ScoreVecs ==
    { Vec(<<10, 990, 0>>), Vec(<<5, 995, 0>>), Vec(<<20, 980, 0>>),
      Vec(<<30, 970, 0>>), Vec(<<990, 10, 0>>), Vec(<<500, 500, 0>>),
      Vec(<<0, 10, 990>>), Vec(<<333, 334, 333>>) }

\* One model's inference: it raises, or returns a score vector.
ModelOutcomes ==
    { [raised |-> TRUE, scores |-> Vec(<<0, 0, 0>>)] } \cup
    { [raised |-> FALSE, scores |-> v] : v \in ScoreVecs }

\* Boxes the face detector can deliver: <<x, y, w, h>>, or None.
BBoxes ==
    { None, Some(<<0, 0, 79, 81>>), Some(<<0, 0, 80, 80>>), Some(<<10, 20, 100, 120>>) }

ZeroVec == Vec(<<0, 0, 0>>)

\* numpy.argmax: the first index holding the maximum.
ArgMax(p) ==
    IF p[0] >= p[1] /\ p[0] >= p[2] THEN 0
    ELSE IF p[1] >= p[2] THEN 1
    ELSE 2

\* Mutant: the loop keeps the last model's scores instead of adding them up.
RECURSIVE RunModels_LastOnly(_, _)
RunModels_LastOnly(outs, k) ==
    IF k = 0
    THEN [failed |-> FALSE, prediction |-> ZeroVec, per_model |-> <<>>, ran |-> 0]
    ELSE LET prev == RunModels_LastOnly(outs, k - 1)
         IN  IF prev.failed THEN prev
             ELSE IF outs[k].raised
                  THEN [prev EXCEPT !.failed = TRUE, !.ran = k]
                  ELSE [failed |-> FALSE,
                        prediction |-> outs[k].scores,
                        per_model |-> Append(prev.per_model, outs[k].scores),
                        ran |-> k]

\* Mutant: a model whose inference raises is skipped and the loop goes on.
RECURSIVE RunModels_SkipFailed(_, _)
RunModels_SkipFailed(outs, k) ==
    IF k = 0
    THEN [failed |-> FALSE, prediction |-> ZeroVec, per_model |-> <<>>, ran |-> 0]
    ELSE LET prev == RunModels_SkipFailed(outs, k - 1)
         IN  IF outs[k].raised
             THEN [prev EXCEPT !.ran = k]
             ELSE [failed |-> FALSE,
                   prediction |-> [i \in 0..2 |-> prev.prediction[i] + outs[k].scores[i]],
                   per_model |-> Append(prev.per_model, outs[k].scores),
                   ran |-> k]

\* The loop of SpoofService.analyze over the first k models:
\* [failed, prediction, per_model, ran].
RECURSIVE RunModels(_, _)
RunModels(outs, k) ==
    IF k = 0
    THEN [failed |-> FALSE, prediction |-> ZeroVec, per_model |-> <<>>, ran |-> 0]
    ELSE LET prev == RunModels(outs, k - 1)
         IN  IF prev.failed THEN prev
             ELSE IF outs[k].raised
                  THEN [prev EXCEPT !.failed = TRUE, !.ran = k]
                  ELSE [failed |-> FALSE,
                        prediction |-> [i \in 0..2 |-> prev.prediction[i] + outs[k].scores[i]],
                        per_model |-> Append(prev.per_model, outs[k].scores),
                        ran |-> k]

\* Mutants of the two gates: an off-by-one area test, a gate without the floor.
TooSmall_Inclusive(w, h) == w * h <= MIN_BBOX_AREA
Passed_NoFloor(raw, confNum, confDen) == raw = "real"

\* The area test of the bbox gate.
TooSmall(w, h) == w * h < MIN_BBOX_AREA

\* passed = label == "real" and confidence >= MIN_CONFIDENCE, the confidence being
\* confNum / confDen.
Passed(raw, confNum, confDen) == raw = "real" /\ confNum >= MIN_CONFIDENCE * confDen

\* SpoofService.analyze(frame): bbox is what get_bbox returns for the frame, outs
\* what each model of model_paths does on it.
SpoofAnalyze(nPaths, bbox, outs) ==
    IF IsNone(bbox)
    THEN [kind |-> "ValueError", detail |-> "No face detected", ran |-> 0]
    ELSE IF TooSmall(Get(bbox)[3], Get(bbox)[4])
    THEN [kind |-> "ValueError", detail |-> "Face too small", ran |-> 0]
    ELSE LET run == RunModels(outs, nPaths)
         IN  IF run.failed
             THEN [kind |-> "Exception", detail |-> "inference", ran |-> run.ran]
             ELSE LET label_idx  == ArgMax(run.prediction)
                      raw        == IF label_idx = 1 THEN "real" ELSE "spoof"
                      confNum    == run.prediction[label_idx]
                      confDen    == Max2(nPaths, 1)
                      passed     == Passed(raw, confNum, confDen)
                  IN  [kind |-> "ok",
                       label |-> IF passed THEN raw ELSE "spoof",
                       confNum |-> confNum, confDen |-> confDen,
                       passed |-> passed,
                       bbox |-> bbox,
                       per_model |-> run.per_model,
                       ran |-> run.ran]

SfIdle == [status |-> 0]
SfNoReq == [decodable |-> FALSE, bbox |-> None, outs |-> <<>>]

\* POST /analyze of the Silent-Face server.
analyze_face(decodable, bbox, outs) ==
    /\ sfResp = SfIdle
    /\ sfReq' = [decodable |-> decodable, bbox |-> bbox, outs |-> outs]
    /\ sfResp' =
         IF ~decodable
         THEN [status |-> 400, detail |-> "Unsupported or corrupted image data", ran |-> 0]
         ELSE LET r == SpoofAnalyze(sfModelPaths, bbox, outs)
              IN  CASE r.kind = "ValueError" -> [status |-> 400, detail |-> r.detail, ran |-> r.ran]
                    [] r.kind = "Exception"  -> [status |-> 500, detail |-> "Inference failure", ran |-> r.ran]
                    [] OTHER -> [status |-> 200, success |-> TRUE, label |-> r.label,
                                 confNum |-> r.confNum, confDen |-> r.confDen,
                                 passed |-> r.passed, bbox |-> r.bbox,
                                 per_model |-> r.per_model, ran |-> r.ran]
    /\ UNCHANGED <<sfModelPaths>>
    /\ UNCHANGED pyVars
    /\ UNCHANGED rootVars


(***************************************************************************)
(* python/server.py: the anti-spoof model                                  *)
(***************************************************************************)
\* SpoofModelWrapper.predict(frame): 0 without a box, else 1 iff the argmax of the
\* summed predictions of every model file is class 1.
RECURSIVE SumPredictions(_, _)
SumPredictions(outs, k) ==
    IF k = 0 THEN ZeroVec
    ELSE LET prev == SumPredictions(outs, k - 1)
         IN  [i \in 0..2 |-> prev[i] + outs[k][i]]

WrapperPredict(spoof) ==
    IF ~spoof.bbox THEN 0
    ELSE IF ArgMax(SumPredictions(spoof.outs, Len(spoof.outs))) = 1 THEN 1 ELSE 0

\* _StubAntiSpoofing.predict(frame)
StubPredict(spoof) == 1

\* anti_spoof.predict: the object load_anti_spoof_model returned.
AntiSpoofPredict(available, spoof) ==
    IF available THEN WrapperPredict(spoof) ELSE StubPredict(spoof)

\* LivenessValidator.detect_liveness: predict returns an int here.
detect_liveness(available, frame) == AntiSpoofPredict(available, frame.spoof) = 1

(***************************************************************************)
(* python/server.py: LivenessValidator                                     *)
(***************************************************************************)
NewValidator == [blink_count |-> 0, prev_eye_closed |-> FALSE, wave_x_history |-> <<>>]

PixelScale == 1000
EAR_CLOSED == 25
SMILE_RATIO_X10 == 25
HEAD_TURN_ANGLE == 30
WAVE_MAXLEN == 15
WAVE_MIN_SAMPLES == 5
WAVE_MIN_AMPLITUDE == 30
WAVE_WIDTH_PERCENT == 4

\* Mutant: a level-triggered blink, true on every closed frame.
detect_blink_level(v, mesh) ==
    LET eye_closed == mesh.left_ear + mesh.right_ear < 2 * EAR_CLOSED
    IN  [validator |-> [v EXCEPT !.prev_eye_closed = eye_closed,
                                 !.blink_count = IF eye_closed THEN @ + 1 ELSE @],
         ret |-> eye_closed]

\* eye_closed = avg_ear < 0.25 with avg_ear = (left_ear + right_ear) / 2
EyeClosed(mesh) == mesh.left_ear + mesh.right_ear < 2 * EAR_CLOSED

\* detect_blink: [validator, ret]
detect_blink(v, mesh) ==
    LET eye_closed  == EyeClosed(mesh)
        blink_event == eye_closed /\ ~v.prev_eye_closed
    IN  [validator |-> [v EXCEPT !.prev_eye_closed = eye_closed,
                                 !.blink_count = IF blink_event THEN @ + 1 ELSE @],
         ret |-> blink_event]

\* detect_smile: False on a (near) zero height, else width / height > 2.5
detect_smile(mesh) ==
    IF mesh.mouth_h <= 0 THEN FALSE
    ELSE 10 * mesh.mouth_w > SMILE_RATIO_X10 * mesh.mouth_h

\* detect_head_turn
detect_head_turn(mesh, direction) ==
    IF direction = "left" THEN mesh.angle < -HEAD_TURN_ANGLE
    ELSE IF direction = "right" THEN mesh.angle > HEAD_TURN_ANGLE
    ELSE FALSE

\* deque(maxlen=15).append
\* Mutant: a history without a capacity.
DequeAppend_NoEvict(q, x) == Append(q, x)

DequeAppend(q, x) ==
    IF Len(q) >= WAVE_MAXLEN THEN Append(Tail(q), x) ELSE Append(q, x)

RECURSIVE SeqMax(_)
SeqMax(q) == IF Len(q) = 1 THEN q[1] ELSE Max2(q[1], SeqMax(Tail(q)))

RECURSIVE SeqMin(_)
SeqMin(q) == IF Len(q) = 1 THEN q[1] ELSE -Max2(-q[1], -SeqMin(Tail(q)))

Sign(d) == IF d > 0 THEN 1 ELSE IF d < 0 THEN -1 ELSE 0

\* np.sign(np.diff(positions)) with the zeros removed
Dirs(q) ==
    LET diffs == [i \in 1..(Len(q) - 1) |-> Sign(q[i + 1] - q[i])]
    IN  SelectSeq(diffs, LAMBDA d : d # 0)

\* np.sum(dirs[1:] != dirs[:-1])
Switches(dirs) == Cardinality({i \in 1..(Len(dirs) - 1) : dirs[i + 1] # dirs[i]})

\* hand_raised = wrist[1] < 0.5 and middle_finger_tip[1] < wrist[1]
HandRaised(hand) == 2 * hand.wrist_y < PixelScale /\ hand.tip_y < hand.wrist_y

\* amplitude > threshold, threshold = max(30.0, 0.04 * frame_width)
WaveAmplitudeOk(q, frame_width) ==
    SeqMax(q) - SeqMin(q) >
        Max2(WAVE_MIN_AMPLITUDE * PixelScale,
             (WAVE_WIDTH_PERCENT * frame_width * PixelScale) \div 100)

\* detect_wave(hand_landmarks, frame_width): hand is None or the pixel coordinates
\* [wrist_x, wrist_y, tip_y]; [validator, ret]
detect_wave(v, hand, frame_width) ==
    IF IsNone(hand)
    THEN [validator |-> [v EXCEPT !.wave_x_history = <<>>], ret |-> FALSE]
    ELSE IF ~HandRaised(Get(hand))
    THEN [validator |-> [v EXCEPT !.wave_x_history = <<>>], ret |-> FALSE]
    ELSE LET q  == DequeAppend(v.wave_x_history, Get(hand).wrist_x)
             v2 == [v EXCEPT !.wave_x_history = q]
         IN  IF Len(q) < WAVE_MIN_SAMPLES THEN [validator |-> v2, ret |-> FALSE]
             ELSE IF Len(Dirs(q)) < 2 THEN [validator |-> v2, ret |-> FALSE]
             ELSE [validator |-> v2,
                   ret |-> WaveAmplitudeOk(q, frame_width) /\ Switches(Dirs(q)) >= 2]

(***************************************************************************)
(* python/server.py: process_frame                                         *)
(***************************************************************************)
\* hand_points = [[lm.x * w, lm.y * h, lm.z] ...]: normalised landmarks to pixels
HandPoints(lm, w, h) ==
    [wrist_x |-> lm.wrist_x * w, wrist_y |-> lm.wrist_y * h, tip_y |-> lm.tip_y * h]

\* "face_detected": (multi_face_landmarks is not None) or detections, where
\* mp_face_det is None (FaceDetection is still None when it is tested), so the
\* second operand is None.
FaceDetected(frame) == IF ~IsNone(frame.mesh) THEN Some(TRUE) ELSE None

Truthy(o) == ~IsNone(o) /\ Get(o)

\* process_frame(frame) on validator v: [validator, results]
process_frame(available, v, frame) ==
    LET is_live == detect_liveness(available, frame)
        hasMesh == ~IsNone(frame.mesh)
        blink   == IF hasMesh THEN detect_blink(v, Get(frame.mesh))
                   ELSE [validator |-> v, ret |-> FALSE]
        v1      == blink.validator
        hasHand == ~IsNone(frame.hand)
        wave    == IF hasHand
                   THEN detect_wave(v1, Some(HandPoints(Get(frame.hand), frame.w, frame.h)), frame.w)
                   ELSE [validator |-> v1, ret |-> FALSE]
    IN  [validator |-> wave.validator,
         results |->
            [liveness |-> is_live,
             spoof_model_loaded |-> available,
             face_detected |-> FaceDetected(frame),
             blink_detected |-> blink.ret,
             smile_detected |-> IF hasMesh THEN detect_smile(Get(frame.mesh)) ELSE FALSE,
             head_turn_left |-> IF hasMesh THEN detect_head_turn(Get(frame.mesh), "left") ELSE FALSE,
             head_turn_right |-> IF hasMesh THEN detect_head_turn(Get(frame.mesh), "right") ELSE FALSE,
             wave_detected |-> wave.ret]]

(***************************************************************************)
(* python/auth/jwt_tokens.py: strings, proof hash, token                   *)
(***************************************************************************)
\* Strings that are hashed are tuples of one-character strings over Alphabet;
\* Codes holds the byte str.encode() gives each.
Alphabet ==
    <<"0", "1", "2", "3", "4", "5", "6", "7", "8", "9", "A", "B", "C", "D", "E", "F",
      "_", "a", "b", "c", "d", "e", "f", "h", "l", "x">>
Codes ==
    <<48, 49, 50, 51, 52, 53, 54, 55, 56, 57, 65, 66, 67, 68, 69, 70,
      95, 97, 98, 99, 100, 101, 102, 104, 108, 120>>

Ord(c) == Codes[CHOOSE i \in 1..Len(Alphabet) : Alphabet[i] = c]
Chr(b) == Alphabet[CHOOSE i \in 1..Len(Codes) : Codes[i] = b]

\* str.encode()
Encode(str) == [i \in 1..Len(str) |-> Ord(str[i])]

\* str.lower(): the upper-case letters of Alphabet are A..F
LowerChar(c) == IF Ord(c) >= Ord("A") /\ Ord(c) <= Ord("F") THEN Chr(Ord(c) + (Ord("a") - Ord("A"))) ELSE c
Lower(str) == [i \in 1..Len(str) |-> LowerChar(str[i])]

\* str(n) / f"{n}" for an integer n >= 0
RECURSIVE Digits(_)
Digits(n) == IF n < 10 THEN <<Alphabet[n + 1]>> ELSE Digits(n \div 10) \o <<Alphabet[(n % 10) + 1]>>

RECURSIVE ConcatAll(_)
ConcatAll(frames) == IF frames = <<>> THEN <<>> ELSE frames[1] \o ConcatAll(Tail(frames))

\* Mutant: the wallet address is hashed as given.
generate_proof_hash_cased(frames, nonce, wallet_address) ==
    ConcatAll(frames) \o Encode(nonce) \o Encode(wallet_address)

\* generate_proof_hash(frames, nonce, wallet_address): SHA-256 is taken to be
\* injective, so the digest is identified with the byte stream fed to the hasher.
generate_proof_hash(frames, nonce, wallet_address) ==
    ConcatAll(frames) \o Encode(nonce) \o Encode(Lower(wallet_address))

TOKEN_EXPIRY_HOURS == 24
SecondsPerHour == 3600

\* dict.update
DictUpdate(d, u) == [k \in (DOMAIN d) \cup (DOMAIN u) |-> IF k \in DOMAIN u THEN u[k] ELSE d[k]]

\* create_verification_token at time now: the signed payload
create_verification_token(wallet_address, challenge_type, proof_hash, session_id, additional_claims, now) ==
    LET payload ==
            [iss |-> "vault-liveness-detector",
             sub |-> Lower(wallet_address),
             iat |-> now,
             exp |-> now + TOKEN_EXPIRY_HOURS * SecondsPerHour,
             jti |-> session_id,
             challenge_type |-> challenge_type,
             proof_hash |-> proof_hash,
             verified_at |-> now,
             verification_type |-> "proof_of_life"]
    IN  [payload |-> IF IsNone(additional_claims) \/ DOMAIN Get(additional_claims) = {}
                     THEN payload ELSE DictUpdate(payload, Get(additional_claims)),
         signed_with |-> "SECRET_KEY"]

\* One call of create_verification_token: its arguments and the token it returned.
Minted(wallet_address, challenge_type, proof_hash, session_id, additional_claims, now) ==
    [wallet_address |-> wallet_address, challenge_type |-> challenge_type,
     proof_hash |-> proof_hash, session_id |-> session_id,
     additional_claims |-> additional_claims,
     token |-> create_verification_token(wallet_address, challenge_type, proof_hash,
                                         session_id, additional_claims, now)]

\* The claims validate_token asks jwt.decode to require.
RequiredClaims == {"sub", "proof_hash", "challenge_type"}

\* jwt.decode(token, self.secret_key, algorithms=[HS256], options=...) at time now:
\* the signature (a string that is no JWS of this key fails here too), then the
\* required claims, then "exp" when the payload has one (expired from exp on).
jwt_decode(token, now) ==
    IF token.signed_with # "SECRET_KEY"
    THEN [ok |-> FALSE, error |-> "InvalidTokenError", detail |-> "Signature verification failed"]
    ELSE IF ~(RequiredClaims \subseteq DOMAIN token.payload)
    THEN [ok |-> FALSE, error |-> "InvalidTokenError", detail |-> "Token is missing a required claim"]
    ELSE IF "exp" \in DOMAIN token.payload /\ token.payload.exp <= now
    THEN [ok |-> FALSE, error |-> "ExpiredSignatureError", detail |-> "Signature has expired"]
    ELSE [ok |-> TRUE, payload |-> token.payload]

\* Mutant: one message for both failures.
validate_token_one_kind(token, now) ==
    LET d == jwt_decode(token, now)
    IN  IF d.ok THEN [ok |-> TRUE, payload |-> d.payload]
        ELSE [ok |-> FALSE, raises |-> "ValueError",
              message |-> <<"Invalid verification token: ", d.detail>>]

\* validate_token(token) at time now: the payload, or the ValueError raised
validate_token(token, now) ==
    LET d == jwt_decode(token, now)
    IN  IF d.ok THEN [ok |-> TRUE, payload |-> d.payload]
        ELSE IF d.error = "ExpiredSignatureError"
        THEN [ok |-> FALSE, raises |-> "ValueError",
              message |-> <<"Verification token has expired">>]
        ELSE [ok |-> FALSE, raises |-> "ValueError",
              message |-> <<"Invalid verification token: ", d.detail>>]

\* Mutant: the subject is compared with the caller's address as given.
verify_for_minting_exact(token, wallet_address, now) ==
    LET v == validate_token(token, now)
    IN  IF ~v.ok
        THEN IF v.raises = "ValueError" THEN [raised |-> FALSE, value |-> FALSE]
             ELSE [raised |-> TRUE, value |-> FALSE]
        ELSE IF Lower(v.payload.sub) # wallet_address
        THEN [raised |-> FALSE, value |-> FALSE]
        ELSE IF "verification_type" \notin DOMAIN v.payload
                \/ v.payload.verification_type # "proof_of_life"
        THEN [raised |-> FALSE, value |-> FALSE]
        ELSE [raised |-> FALSE, value |-> TRUE]

\* verify_for_minting(token, wallet_address) at time now: whether an exception
\* leaves the call, and the value returned otherwise.  "except ValueError" catches
\* what validate_token raises.
verify_for_minting(token, wallet_address, now) ==
    LET v == validate_token(token, now)
    IN  IF ~v.ok
        THEN IF v.raises = "ValueError" THEN [raised |-> FALSE, value |-> FALSE]
             ELSE [raised |-> TRUE, value |-> FALSE]
        ELSE IF Lower(v.payload.sub) # Lower(wallet_address)
        THEN [raised |-> FALSE, value |-> FALSE]
        ELSE IF "verification_type" \notin DOMAIN v.payload
                \/ v.payload.verification_type # "proof_of_life"
        THEN [raised |-> FALSE, value |-> FALSE]
        ELSE [raised |-> FALSE, value |-> TRUE]

(***************************************************************************)
(* python/server.py: endpoints                                             *)
(***************************************************************************)
Idle == [kind |-> "none"]

\* No /ws/video connection yet.  inbox holds the text messages the client has
\* sent and receive_text has not returned yet, received the messages
\* receive_text returned, sent the replies of send_json, closes the number of
\* websocket.close() calls, cause what ended the loop.
WsNone == [state |-> "none", inbox |-> <<>>, received |-> <<>>, sent |-> <<>>,
           closes |-> 0, cause |-> "none"]

CHALLENGES ==
    << [id |-> 1, gesture |-> "smile", instruction |-> "Smile at the camera"],
       [id |-> 2, gesture |-> "blink", instruction |-> "Blink twice"],
       [id |-> 3, gesture |-> "turn_left", instruction |-> "Turn your head left"],
       [id |-> 4, gesture |-> "turn_right", instruction |-> "Turn your head right"],
       [id |-> 5, gesture |-> "wave", instruction |-> "Wave your right hand"] >>

\* f"chal_{challenge['id']}_{int(time.time())}"
ChallengeId(id, now) == <<"c", "h", "a", "l", "_">> \o Digits(id) \o <<"_">> \o Digits(now)

\* POST /api/challenge; c is the index random.choice draws, the session id is the
\* next uuid4.
generate_challenge(c) ==
    /\ resp = Idle
    /\ uuidCount < MaxSessions
    /\ LET session_id == uuidCount + 1
           r == [kind |-> "challenge", success |-> TRUE, challenge |-> CHALLENGES[c],
                 challenge_id |-> ChallengeId(CHALLENGES[c].id, clock),
                 sessionId |-> session_id, timestamp |-> clock]
       IN  /\ uuidCount' = session_id
           /\ issued' = issued \cup {r}
           /\ req' = [kind |-> "challenge"]
           /\ resp' = r
    /\ UNCHANGED <<ANTI_SPOOF_AVAILABLE, validator, clock, nFrames, tokens, hist>>
    /\ UNCHANGED sfVars
    /\ UNCHANGED rootVars
    /\ UNCHANGED ws

\* Python truthiness of an optional string / of an optional string of characters
StrTruthy(o) == ~IsNone(o) /\ Get(o) # ""
CharsTruthy(o) == ~IsNone(o) /\ Get(o) # <<>>

\* gesture_map.get(gesture, False)
GestureMap(results, gesture) ==
    CASE gesture = "blink"      -> results.blink_detected
      [] gesture = "smile"      -> results.smile_detected
      [] gesture = "turn_left"  -> results.head_turn_left
      [] gesture = "turn_right" -> results.head_turn_right
      [] gesture = "wave"       -> results.wave_detected
      [] OTHER                  -> FALSE

\* Mutant: any detected gesture satisfies the request.
GestureOk_AnySignal(results, gesture) ==
    IF StrTruthy(gesture)
    THEN \/ results.blink_detected \/ results.smile_detected \/ results.head_turn_left
         \/ results.head_turn_right \/ results.wave_detected
    ELSE TRUE

\* Mutant: a request that names no gesture fails the gesture check.
GestureOk_Mandatory(results, gesture) ==
    IF StrTruthy(gesture) THEN GestureMap(results, Get(gesture)) ELSE FALSE

\* gesture_ok of validate_frame
GestureOk(results, gesture) ==
    IF StrTruthy(gesture) THEN GestureMap(results, Get(gesture)) ELSE TRUE

\* success of validate_frame
Success(results, gesture_ok) ==
    results.liveness /\ Truthy(results.face_detected) /\ gesture_ok

\* Mutant: the liveness reason is listed before the face reason.
Reasons_LivenessFirst(results, gesture, gesture_ok) ==
    LET r1 == IF ~Truthy(results.face_detected) THEN << <<"face not detected">> >> ELSE <<>>
        r2 == IF ~results.liveness THEN << <<"liveness check failed">> >> ELSE <<>>
        r3 == IF ~gesture_ok /\ StrTruthy(gesture)
              THEN << <<"gesture not detected", Get(gesture)>> >> ELSE <<>>
        reasons == r2 \o r1 \o r3
    IN  IF reasons = <<>> THEN << <<"unspecified validation error">> >> ELSE reasons

\* the reasons joined into message
Reasons(results, gesture, gesture_ok) ==
    LET r1 == IF ~Truthy(results.face_detected) THEN << <<"face not detected">> >> ELSE <<>>
        r2 == IF ~results.liveness THEN << <<"liveness check failed">> >> ELSE <<>>
        r3 == IF ~gesture_ok /\ StrTruthy(gesture)
              THEN << <<"gesture not detected", Get(gesture)>> >> ELSE <<>>
        reasons == r1 \o r2 \o r3
    IN  IF reasons = <<>> THEN << <<"unspecified validation error">> >> ELSE reasons

\* Mutant: a token for every request that names a wallet.
IssuesToken_AnyVerdict(success, wallet_address) == CharsTruthy(wallet_address)

\* "if success and wallet_address:"
IssuesToken(success, wallet_address) == success /\ CharsTruthy(wallet_address)

\* POST /api/validate, everything but the observer.  contents are the uploaded
\* bytes and frame what cv2.imdecode makes of them.
ValidateCore(contents, frame, gesture, challenge_id, wallet_address, session_id) ==
    /\ resp = Idle
    /\ req' = [kind |-> "validate", contents |-> contents, frame |-> frame, gesture |-> gesture,
               challenge_id |-> challenge_id, wallet_address |-> wallet_address,
               session_id |-> session_id]
    /\ IF ~frame.decodable
       THEN /\ resp' = [kind |-> "validate", decoded |-> FALSE, success |-> FALSE,
                        error |-> "Invalid frame", verificationToken |-> None,
                        proofHash |-> None, expiresAt |-> None]
            /\ UNCHANGED <<validator, uuidCount, nFrames, tokens>>
       ELSE \E pf \in {process_frame(ANTI_SPOOF_AVAILABLE, validator, frame)} :
            LET results    == pf.results
                gesture_ok == GestureOk(results, gesture)
                success    == Success(results, gesture_ok)
                message    == IF success THEN << <<"Verification passed">> >>
                              ELSE Reasons(results, gesture, gesture_ok)
                token      == IssuesToken(success, wallet_address)
                drawsUuid  == token /\ IsNone(session_id)
                jti        == IF IsNone(session_id) THEN uuidCount + 1 ELSE Get(session_id)
                proof_hash == generate_proof_hash(<<contents>>,
                                  IF CharsTruthy(challenge_id) THEN Get(challenge_id) ELSE <<>>,
                                  Get(wallet_address))
            IN  /\ drawsUuid => uuidCount < MaxSessions
                /\ validator' = pf.validator
                /\ nFrames' = nFrames + 1
                /\ uuidCount' = IF drawsUuid THEN uuidCount + 1 ELSE uuidCount
                /\ resp' = [kind |-> "validate", decoded |-> TRUE, success |-> success,
                            message |-> message, results |-> results,
                            challenge_id |-> challenge_id, timestamp |-> clock,
                            verificationToken |->
                                IF token
                                THEN Some(create_verification_token(Get(wallet_address),
                                        IF StrTruthy(gesture) THEN Get(gesture) ELSE "unknown",
                                        proof_hash, jti,
                                        Some([liveness_confidence |-> IF results.liveness THEN 1 ELSE 0,
                                              gesture_detected |-> gesture_ok]),
                                        clock))
                                ELSE None,
                            proofHash |-> IF token THEN Some(proof_hash) ELSE None,
                            expiresAt |-> IF token THEN Some(clock + TOKEN_EXPIRY_HOURS * SecondsPerHour)
                                          ELSE None]
                /\ tokens' = IF token
                             THEN tokens \cup {Minted(Get(wallet_address),
                                        IF StrTruthy(gesture) THEN Get(gesture) ELSE "unknown",
                                        proof_hash, jti,
                                        Some([liveness_confidence |-> IF results.liveness THEN 1 ELSE 0,
                                              gesture_detected |-> gesture_ok]),
                                        clock)}
                             ELSE tokens
    /\ UNCHANGED <<ANTI_SPOOF_AVAILABLE, clock, issued>>
    /\ UNCHANGED sfVars
    /\ UNCHANGED rootVars
    /\ UNCHANGED ws

\* The observer's record of one process_frame call.
Observe(session_id, frame) ==
    hist' = IF frame.decodable
            THEN Append(hist, [session_id |-> session_id, frame |-> frame,
                               results |-> resp'.results])
            ELSE hist

validate_frame(contents, frame, gesture, challenge_id, wallet_address, session_id) ==
    /\ ValidateCore(contents, frame, gesture, challenge_id, wallet_address, session_id)
    /\ UNCHANGED hist

\* /api/validate watched by the observer
validate_frame_obs(contents, frame, gesture, challenge_id, wallet_address, session_id) ==
    /\ ValidateCore(contents, frame, gesture, challenge_id, wallet_address, session_id)
    /\ Observe(session_id, frame)

\* xmin, xmax = max(0, int(min(xs))), min(w, int(max(xs))) ... "w": max(1, xmax - xmin)
MeshBBox(ext, w, h) ==
    LET xmin == Max2(0, ext.xmin)
        xmax == -Max2(-w, -ext.xmax)
        ymin == Max2(0, ext.ymin)
        ymax == -Max2(-h, -ext.ymax)
    IN  [x |-> xmin, y |-> ymin, w |-> Max2(1, xmax - xmin), h |-> Max2(1, ymax - ymin)]

\* POST /analyze.  mesh2 is the landmark extent of the handler's own second
\* mp_face.process call on the frame (None when it finds no face).
AnalyzeCore(frame, mesh2) ==
    /\ resp = Idle
    /\ req' = [kind |-> "analyze", frame |-> frame, mesh2 |-> mesh2]
    /\ IF ~frame.decodable
       THEN /\ resp' = [kind |-> "analyze", status |-> 400, detail |-> "Invalid frame"]
            /\ UNCHANGED <<validator, nFrames>>
       ELSE \E pf \in {process_frame(ANTI_SPOOF_AVAILABLE, validator, frame)} :
                /\ validator' = pf.validator
                /\ nFrames' = nFrames + 1
                /\ resp' = [kind |-> "analyze", status |-> 200,
                            label |-> IF pf.results.liveness THEN "real" ELSE "spoof",
                            confidence |-> IF pf.results.liveness THEN 99 ELSE 20,
                            passed |-> pf.results.liveness,
                            bbox |-> IF IsNone(mesh2) THEN None
                                     ELSE Some(MeshBBox(Get(mesh2), frame.w, frame.h)),
                            results |-> pf.results]
    /\ UNCHANGED <<ANTI_SPOOF_AVAILABLE, uuidCount, clock, issued, tokens>>
    /\ UNCHANGED sfVars
    /\ UNCHANGED rootVars
    /\ UNCHANGED ws

analyze_frame_api(frame, mesh2) ==
    /\ AnalyzeCore(frame, mesh2)
    /\ UNCHANGED hist

\* Mutant: an invalid frame on the stream starts the gesture state afresh.
VideoCore_ResetOnInvalid(frame) ==
    /\ resp = Idle
    /\ req' = [kind |-> "ws", frame |-> frame]
    /\ IF ~frame.decodable
       THEN /\ resp' = [kind |-> "ws", success |-> FALSE, error |-> "Invalid frame"]
            /\ validator' = NewValidator
            /\ UNCHANGED nFrames
       ELSE \E pf \in {process_frame(ANTI_SPOOF_AVAILABLE, validator, frame)} :
                /\ validator' = pf.validator
                /\ nFrames' = nFrames + 1
                /\ resp' = [kind |-> "ws", success |-> TRUE, results |-> pf.results,
                            timestamp |-> clock]
    /\ UNCHANGED <<ANTI_SPOOF_AVAILABLE, uuidCount, clock, issued, tokens>>
    /\ UNCHANGED sfVars
    /\ UNCHANGED rootVars

\* One iteration of the loop of /ws/video: a received frame and the reply sent.
VideoCore(frame) ==
    /\ resp = Idle
    /\ req' = [kind |-> "ws", frame |-> frame]
    /\ IF ~frame.decodable
       THEN /\ resp' = [kind |-> "ws", success |-> FALSE, error |-> "Invalid frame"]
            /\ UNCHANGED <<validator, nFrames>>
       ELSE \E pf \in {process_frame(ANTI_SPOOF_AVAILABLE, validator, frame)} :
                /\ validator' = pf.validator
                /\ nFrames' = nFrames + 1
                /\ resp' = [kind |-> "ws", success |-> TRUE, results |-> pf.results,
                            timestamp |-> clock]
    /\ UNCHANGED <<ANTI_SPOOF_AVAILABLE, uuidCount, clock, issued, tokens>>
    /\ UNCHANGED sfVars
    /\ UNCHANGED rootVars

video_stream(frame) ==
    /\ VideoCore(frame)
    /\ UNCHANGED hist
    /\ UNCHANGED ws

\* /ws/video watched by the observer
video_stream_obs(frame) ==
    /\ VideoCore(frame)
    /\ Observe(None, frame)
    /\ UNCHANGED ws

\* The handler returns: the response has gone to the client.
Respond ==
    /\ resp # Idle
    /\ resp' = Idle
    /\ req' = Idle
    /\ UNCHANGED <<ANTI_SPOOF_AVAILABLE, validator, uuidCount, clock, issued, tokens, nFrames, hist>>
    /\ UNCHANGED sfVars
    /\ UNCHANGED rootVars
    /\ UNCHANGED ws

\* "await websocket.accept()"
ws_accept ==
    /\ ws.state = "none"
    /\ ws' = [ws EXCEPT !.state = "open"]
    /\ UNCHANGED <<ANTI_SPOOF_AVAILABLE, validator, uuidCount, clock, issued, req, resp,
                   nFrames, tokens, hist>>
    /\ UNCHANGED sfVars
    /\ UNCHANGED rootVars

\* Text messages of the client that are on their way or were received.
TextsSent == Len(ws.received) + Cardinality({ i \in 1..Len(ws.inbox) : ws.inbox[i].kind = "text" })

\* The client has hung up: nothing follows its disconnect.
HungUp == \E i \in 1..Len(ws.inbox) : ws.inbox[i].kind = "disconnect"

\* The client sends a text message.  b64ok says whether base64.b64decode accepts
\* the text (it raises binascii.Error on incorrect padding); frame is what
\* cv2.imdecode makes of the decoded bytes.
ws_client_send(b64ok, frame) ==
    /\ ws.state = "open"
    /\ ~HungUp
    /\ TextsSent < MaxStreamFrames
    /\ ws' = [ws EXCEPT !.inbox = Append(@, [kind |-> "text", seq |-> TextsSent + 1,
                                             b64ok |-> b64ok, frame |-> frame])]
    /\ UNCHANGED <<ANTI_SPOOF_AVAILABLE, validator, uuidCount, clock, issued, req, resp,
                   nFrames, tokens, hist>>
    /\ UNCHANGED sfVars
    /\ UNCHANGED rootVars

\* The client closes the connection.
ws_client_disconnect ==
    /\ ws.state = "open"
    /\ ~HungUp
    /\ ws' = [ws EXCEPT !.inbox = Append(@, [kind |-> "disconnect", seq |-> 0,
                                             b64ok |-> FALSE, frame |-> None])]
    /\ UNCHANGED <<ANTI_SPOOF_AVAILABLE, validator, uuidCount, clock, issued, req, resp,
                   nFrames, tokens, hist>>
    /\ UNCHANGED sfVars
    /\ UNCHANGED rootVars

\* "except Exception as e: print(...)" then "finally: await websocket.close()"
WsClosed(w, cause) == [w EXCEPT !.state = "closed", !.closes = @ + 1, !.cause = cause]

\* One iteration of "while True" of video_stream on the connection: receive_text
\* returns the oldest message or raises WebSocketDisconnect, b64decode may
\* raise, otherwise the frame is handled and the reply sent.
ws_iteration ==
    /\ ws.state = "open"
    /\ ws.inbox # <<>>
    /\ resp = Idle
    /\ LET msg  == Head(ws.inbox)
           rest == [ws EXCEPT !.inbox = Tail(@)]
           got  == [rest EXCEPT !.received = Append(@, msg)]
       IN  IF msg.kind = "disconnect"
           THEN /\ ws' = WsClosed(rest, "disconnect")
                /\ UNCHANGED <<ANTI_SPOOF_AVAILABLE, validator, uuidCount, clock, issued, req,
                               resp, nFrames, tokens>>
                /\ UNCHANGED sfVars
                /\ UNCHANGED rootVars
           ELSE IF ~msg.b64ok
           THEN /\ ws' = WsClosed(got, "error")
                /\ UNCHANGED <<ANTI_SPOOF_AVAILABLE, validator, uuidCount, clock, issued, req,
                               resp, nFrames, tokens>>
                /\ UNCHANGED sfVars
                /\ UNCHANGED rootVars
           ELSE /\ VideoCore(msg.frame)
                /\ ws' = [got EXCEPT !.sent = Append(@, [seq |-> msg.seq,
                                                          success |-> resp'.success])]
    /\ UNCHANGED hist

\* time.time() moves on
Tick ==
    /\ clock < MaxClock
    /\ clock' = clock + 1
    /\ UNCHANGED <<ANTI_SPOOF_AVAILABLE, validator, uuidCount, issued, tokens, req, resp, nFrames, hist>>
    /\ UNCHANGED sfVars
    /\ UNCHANGED rootVars
    /\ UNCHANGED ws

\* POST /api/verify-token; token and walletAddress are data.get(...) of the body.
verify_token(token, walletAddress) ==
    /\ resp = Idle
    /\ req' = [kind |-> "verify", token |-> token, walletAddress |-> walletAddress]
    /\ resp' =
         IF IsNone(token) \/ ~CharsTruthy(walletAddress)
         THEN [kind |-> "verify", status |-> 400, detail |-> "Missing token or wallet address"]
         ELSE LET valid   == verify_for_minting(Get(token), Get(walletAddress), clock)
                  v       == validate_token(Get(token), clock)
              IN  IF valid.raised THEN [kind |-> "verify", status |-> 500]
                  ELSE IF ~valid.value
                  THEN [kind |-> "verify", status |-> 200, valid |-> FALSE,
                        reason |-> <<"Invalid token or wallet mismatch">>]
                  ELSE IF ~v.ok
                  THEN [kind |-> "verify", status |-> 200, valid |-> FALSE, reason |-> v.message]
                  ELSE IF ~({"verified_at", "exp"} \subseteq DOMAIN v.payload)
                  THEN [kind |-> "verify", status |-> 500]
                  ELSE [kind |-> "verify", status |-> 200, valid |-> TRUE,
                        wallet |-> v.payload.sub, proofHash |-> v.payload.proof_hash,
                        challengeType |-> v.payload.challenge_type,
                        verifiedAt |-> v.payload.verified_at, expiresAt |-> v.payload.exp]
    /\ UNCHANGED <<ANTI_SPOOF_AVAILABLE, validator, uuidCount, clock, issued, nFrames, tokens, hist>>
    /\ UNCHANGED sfVars
    /\ UNCHANGED rootVars
    /\ UNCHANGED ws

\* A direct call token_manager.create_verification_token(...).
create_token(wallet_address, challenge_type, proof_hash, session_id, additional_claims) ==
    /\ resp = Idle
    /\ Cardinality(tokens) < MaxTokens
    /\ LET m == Minted(wallet_address, challenge_type, proof_hash, session_id,
                       additional_claims, clock)
       IN  /\ tokens' = tokens \cup {m}
           /\ req' = [kind |-> "create_verification_token"]
           /\ resp' = [kind |-> "create_verification_token", token |-> m.token]
    /\ UNCHANGED <<ANTI_SPOOF_AVAILABLE, validator, uuidCount, clock, issued, nFrames, hist>>
    /\ UNCHANGED sfVars
    /\ UNCHANGED rootVars
    /\ UNCHANGED ws

\* A direct call token_manager.validate_token(token).
validate_token_call(token) ==
    /\ resp = Idle
    /\ req' = [kind |-> "validate_token", token |-> token, now |-> clock]
    /\ resp' = [kind |-> "validate_token", out |-> validate_token(token, clock)]
    /\ UNCHANGED <<ANTI_SPOOF_AVAILABLE, validator, uuidCount, clock, issued, nFrames,
                   tokens, hist>>
    /\ UNCHANGED sfVars
    /\ UNCHANGED rootVars
    /\ UNCHANGED ws

\* A direct call token_manager.verify_for_minting(token, wallet_address).
verify_for_minting_call(token, wallet_address) ==
    /\ resp = Idle
    /\ req' = [kind |-> "verify_for_minting", token |-> token,
               wallet_address |-> wallet_address, now |-> clock]
    /\ resp' = [kind |-> "verify_for_minting",
                out |-> verify_for_minting(token, wallet_address, clock)]
    /\ UNCHANGED <<ANTI_SPOOF_AVAILABLE, validator, uuidCount, clock, issued, nFrames,
                   tokens, hist>>
    /\ UNCHANGED sfVars
    /\ UNCHANGED rootVars
    /\ UNCHANGED ws

\* A direct call token_manager.generate_proof_hash(frames, nonce, wallet_address),
\* recorded by the observer.
generate_proof_hash_call(frames, nonce, wallet_address) ==
    /\ Len(hist) < MaxHashCalls
    /\ hist' = Append(hist, [frames |-> frames, nonce |-> nonce,
                             wallet_address |-> wallet_address,
                             hash |-> generate_proof_hash(frames, nonce, wallet_address)])
    /\ UNCHANGED <<ANTI_SPOOF_AVAILABLE, validator, uuidCount, clock, issued, req, resp,
                   nFrames, tokens>>
    /\ UNCHANGED sfVars
    /\ UNCHANGED rootVars
    /\ UNCHANGED ws

\* Half a day passes.
HalfDay == 12 * SecondsPerHour
TickHalfDay ==
    /\ clock < MaxHalfDays * HalfDay
    /\ clock' = clock + HalfDay
    /\ UNCHANGED <<ANTI_SPOOF_AVAILABLE, validator, uuidCount, issued, req, resp, nFrames,
                   tokens, hist>>
    /\ UNCHANGED sfVars
    /\ UNCHANGED rootVars
    /\ UNCHANGED ws

\* The Silent-Face handler returns.
sf_respond ==
    /\ sfResp # SfIdle
    /\ sfResp' = SfIdle
    /\ sfReq' = SfNoReq
    /\ UNCHANGED <<sfModelPaths>>
    /\ UNCHANGED pyVars
    /\ UNCHANGED rootVars

\* POST /api/challenge of the Silent-Face server; u is the uuid4 drawn.
issue_challenge(u) ==
    /\ sfResp = SfIdle
    /\ sfReq' = [kind |-> "challenge", decodable |-> FALSE, bbox |-> None, outs |-> <<>>]
    /\ sfResp' = [status |-> 200, kind |-> "challenge", challenge_id |-> u,
                  gesture |-> "none", instruction |-> "Keep your face inside the frame"]
    /\ UNCHANGED <<sfModelPaths>>
    /\ UNCHANGED pyVars
    /\ UNCHANGED rootVars

\* POST /api/validate of the Silent-Face server.  bbox and outs are what the
\* detector and the models would make of the uploaded frame.
validate_challenge(decodable, bbox, outs, challenge_id, gesture) ==
    /\ sfResp = SfIdle
    /\ sfReq' = [kind |-> "validate", decodable |-> decodable, bbox |-> bbox, outs |-> outs,
                 challenge_id |-> challenge_id, gesture |-> gesture]
    /\ sfResp' = IF ~decodable
                 THEN [status |-> 400, kind |-> "validate", detail |-> "Invalid image"]
                 ELSE [status |-> 200, kind |-> "validate", success |-> TRUE,
                       message |-> "Challenge accepted", challenge_id |-> challenge_id,
                       gesture |-> gesture]
    /\ UNCHANGED <<sfModelPaths>>
    /\ UNCHANGED pyVars
    /\ UNCHANGED rootVars

(***************************************************************************)
(* server.py (root): the mock backend                                      *)
(***************************************************************************)
GESTURES ==
    << [gesture |-> "blink", instruction |-> "Blink your eyes twice"],
       [gesture |-> "smile", instruction |-> "Smile for the camera"],
       [gesture |-> "turn_left", instruction |-> "Turn your head slightly to the left"],
       [gesture |-> "turn_right", instruction |-> "Turn your head slightly to the right"],
       [gesture |-> "nod", instruction |-> "Nod your head"] >>

\* POST /api/challenge; c is the index random.choice draws, r the random.randint.
create_challenge(c, r) ==
    /\ rootResp = Idle
    /\ rootReq' = [kind |-> "challenge"]
    /\ rootResp' = [kind |-> "challenge",
                    challenge_id |-> <<"c", "h", "a", "l", "_">> \o Digits(clock) \o <<"_">> \o Digits(r),
                    gesture |-> GESTURES[c].gesture,
                    instruction |-> GESTURES[c].instruction]
    /\ UNCHANGED sfVars
    /\ UNCHANGED pyVars

\* validate_frame(image_bytes) of the root server; is_success is
\* random.random() < 0.8.
mock_validate_frame(is_success, timestamp) ==
    IF is_success
    THEN [kind |-> "validate", success |-> TRUE,
          message |-> "Verification successful. Identity confirmed.",
          token |-> Some(<<"a", "u", "t", "h", "_", "t", "o", "k", "e", "n", "_">> \o Digits(timestamp)),
          results |-> [confidence |-> 98, liveness |-> TRUE], timestamp |-> timestamp]
    ELSE [kind |-> "validate", success |-> FALSE,
          message |-> "Verification failed. Gesture not recognized.",
          token |-> None,
          results |-> [confidence |-> 45, liveness |-> FALSE], timestamp |-> timestamp]

\* POST /api/validate of the root server; frame is the uploaded image.
validate_challenge_endpoint(challenge_id, frame, is_success) ==
    /\ rootResp = Idle
    /\ rootReq' = [kind |-> "validate", challenge_id |-> challenge_id, frame |-> frame]
    /\ rootResp' = mock_validate_frame(is_success, clock)
    /\ UNCHANGED sfVars
    /\ UNCHANGED pyVars

\* The root server's handler returns.
root_respond ==
    /\ rootResp # Idle
    /\ rootResp' = Idle
    /\ rootReq' = Idle
    /\ UNCHANGED sfVars
    /\ UNCHANGED pyVars

\* SpoofService.__init__ with nFiles .pth files in MODEL_DIR
SpoofServiceInit(nFiles) ==
    IF nFiles = 0
    THEN [ok |-> FALSE, error |-> "FileNotFoundError"]
    ELSE [ok |-> TRUE, model_paths |-> nFiles]

\* service = SpoofService(device_id=0): the server exists only if this returned.
SfInit ==
    /\ \E nFiles \in 0..MaxModels :
           /\ SpoofServiceInit(nFiles).ok
           /\ sfModelPaths = SpoofServiceInit(nFiles).model_paths
    /\ sfReq = SfNoReq
    /\ sfResp = SfIdle

\* The root server.py has handled nothing.
RootIdle ==
    /\ rootReq = Idle
    /\ rootResp = Idle

PyIdle ==
    /\ ANTI_SPOOF_AVAILABLE = FALSE
    /\ validator = NewValidator
    /\ uuidCount = 0
    /\ clock = 0
    /\ issued = {}
    /\ req = Idle
    /\ resp = Idle
    /\ nFrames = 0
    /\ tokens = {}
    /\ hist = <<>>
    /\ ws = WsNone

InitSpoof == SfInit /\ PyIdle /\ RootIdle

NextSpoof ==
    \/ \E decodable \in BOOLEAN, bbox \in BBoxes,
          outs \in [1..sfModelPaths -> ModelOutcomes] :
           analyze_face(decodable, bbox, outs)
    \/ sf_respond

SpecSpoof == InitSpoof /\ [][NextSpoof]_vars

(***************************************************************************)
(* Claims about SpoofService.analyze (SpecSpoof)                           *)
(***************************************************************************)
\* The total of class c over the score vectors the request's models returned.
RECURSIVE ClassTotal(_, _)
ClassTotal(outs, c) ==
    IF outs = <<>> THEN 0 ELSE outs[1].scores[c] + ClassTotal(Tail(outs), c)

SfAnswered == sfResp # SfIdle
SfVerdict == sfResp # SfIdle /\ sfResp.status = 200

\* C3: passed iff the argmax class is the real class (index 1) and its total
\* divided by the model count is at least MIN_CONFIDENCE; label is "real" iff
\* passed; two models giving real 0.99 and 0.995 pass at floor 0.98.
C3_ConfidenceGate ==
    SfVerdict =>
        LET t0 == ClassTotal(sfReq.outs, 0)
            t1 == ClassTotal(sfReq.outs, 1)
            t2 == ClassTotal(sfReq.outs, 2)
            argmaxReal == t1 > t0 /\ t1 >= t2
        IN  /\ sfResp.passed = (argmaxReal /\ t1 >= MIN_CONFIDENCE * sfModelPaths)
            /\ sfResp.label \in {"real", "spoof"}
            /\ (sfResp.label = "real") = sfResp.passed
            /\ (/\ Len(sfReq.outs) = 2
                /\ sfReq.outs[1].scores = Vec(<<10, 990, 0>>)
                /\ sfReq.outs[2].scores = Vec(<<5, 995, 0>>)) => (sfResp.passed /\ sfResp.label = "real")

\* The raw argmax is real, the confidence is below the floor, the label is spoof.
C3_Witness ==
    /\ SfVerdict
    /\ ClassTotal(sfReq.outs, 1) > ClassTotal(sfReq.outs, 0)
    /\ ClassTotal(sfReq.outs, 1) >= ClassTotal(sfReq.outs, 2)
    /\ ClassTotal(sfReq.outs, 1) < MIN_CONFIDENCE * sfModelPaths
    /\ sfResp.label = "spoof"
    /\ ~sfResp.passed

\* C4: a null box fails with the no-face error and a box with w*h < MIN_BBOX_AREA
\* with the face-too-small error, both before any model is run and whatever the
\* models would return; a box with w*h >= MIN_BBOX_AREA is never rejected by the gate.
C4_BBoxGate ==
    (SfAnswered /\ sfReq.decodable) =>
        IF IsNone(sfReq.bbox)
        THEN sfResp.status = 400 /\ sfResp.detail = "No face detected" /\ sfResp.ran = 0
        ELSE IF Get(sfReq.bbox)[3] * Get(sfReq.bbox)[4] < MIN_BBOX_AREA
        THEN sfResp.status = 400 /\ sfResp.detail = "Face too small" /\ sfResp.ran = 0
        ELSE /\ sfResp.status \in {200, 500}
             /\ sfResp.ran >= 1

\* A box one pixel short of the minimum area is rejected although every model
\* would have answered "real" with high confidence.
C4_Witness ==
    /\ SfAnswered
    /\ sfReq.decodable
    /\ sfReq.bbox = Some(<<0, 0, 79, 81>>)
    /\ \A k \in 1..Len(sfReq.outs) : sfReq.outs[k] = [raised |-> FALSE, scores |-> Vec(<<5, 995, 0>>)]
    /\ sfResp.status = 400
    /\ sfResp.detail = "Face too small"

\* C5: for a frame without a detectable face, analyze returns a structured result
\* with passed = false and bbox = null, and no transport error.
C5_NoFaceStructuredResult ==
    (SfAnswered /\ sfReq.decodable /\ IsNone(sfReq.bbox)) =>
        /\ sfResp.status = 200
        /\ ~sfResp.passed
        /\ IsNone(sfResp.bbox)

(***************************************************************************)
(* Inputs of python/server.py                                              *)
(***************************************************************************)
\* What the anti-spoof predictor sees in a frame: whether get_bbox finds a box,
\* and the softmax output of each model file.
SpoofReal   == [bbox |-> TRUE,  outs |-> <<Vec(<<10, 990, 0>>), Vec(<<5, 995, 0>>)>>]
SpoofWeak   == [bbox |-> TRUE,  outs |-> <<Vec(<<30, 970, 0>>), Vec(<<500, 500, 0>>)>>]
SpoofFake   == [bbox |-> TRUE,  outs |-> <<Vec(<<990, 10, 0>>), Vec(<<500, 500, 0>>)>>]
SpoofNoFace == [bbox |-> FALSE, outs |-> <<>>]

\* What the face mesh yields: eye aspect ratios (hundredths), mouth width and
\* height, nose angle (hundredths of a radian).
Mesh(l, r, mw, mh, a) ==
    [left_ear |-> l, right_ear |-> r, mouth_w |-> mw, mouth_h |-> mh, angle |-> a]
MeshNeutral     == Mesh(30, 30, 50, 20, 30)
MeshClosedSmile == Mesh(15, 15, 60, 20, 0)
MeshWink        == Mesh(30, 19, 50, 0, 0)
MeshLeft        == Mesh(30, 20, 50, 25, -40)
MeshRight       == Mesh(30, 30, 50, 25, 40)
MeshOpen        == Mesh(30, 30, 50, 25, 0)
MeshClosed      == Mesh(15, 15, 50, 25, 0)

\* What the hand detector yields: normalised wrist x, wrist y and middle finger
\* tip y, in 1/PixelScale of the frame's width or height.
Hand(x, wy, ty) == [wrist_x |-> x, wrist_y |-> wy, tip_y |-> ty]
\* wrist in the top half pixel row, finger tip above it
HandTopRow(x)  == Hand(x, 1, 0)
\* wrist in the upper half of the frame, finger tip above it
HandUp(x)      == Hand(x, 200, 100)
\* wrist in the lower half of the frame
HandDown(x)    == Hand(x, 700, 600)

Frame(decodable, spoof, mesh, hand) ==
    [decodable |-> decodable, w |-> 640, h |-> 480, spoof |-> spoof,
     mesh |-> mesh, hand |-> hand]

Undecodable == Frame(FALSE, SpoofNoFace, None, None)

WALLET == <<"0", "x", "A", "b">>
FORGED_CHALLENGE_ID == <<"c", "h", "a", "l", "_", "9", "_", "9">>
CONTENTS == <<255, 216, 255>>

PyInit ==
    /\ ANTI_SPOOF_AVAILABLE \in BOOLEAN
    /\ validator = NewValidator
    /\ uuidCount = 0
    /\ clock = 0
    /\ issued = {}
    /\ req = Idle
    /\ resp = Idle
    /\ nFrames = 0
    /\ tokens = {}
    /\ hist = <<>>
    /\ ws = WsNone

(***************************************************************************)
(* Spec: the three frame endpoints of python/server.py                     *)
(***************************************************************************)
Frames ==
    { Undecodable, Frame(TRUE, SpoofNoFace, None, None), Frame(TRUE, SpoofReal, None, None),
      Frame(TRUE, SpoofWeak, Some(MeshClosedSmile), None),
      Frame(TRUE, SpoofReal, Some(MeshWink), Some(HandTopRow(300))) }
    \cup { Frame(TRUE, sp, Some(m), None) :
             sp \in {SpoofReal, SpoofFake},
             m \in {MeshNeutral, MeshClosedSmile, MeshLeft, MeshRight} }

Gestures ==
    { None, Some(""), Some("blink"), Some("smile"), Some("turn_left"), Some("turn_right"),
      Some("wave"), Some("nod"), Some("none") }

MeshExtents == { None, Some([xmin |-> -5, xmax |-> 300, ymin |-> 100, ymax |-> 500]) }

\* The Silent-Face service is not part of this server.
SfOff ==
    /\ sfModelPaths = 1
    /\ sfReq = SfNoReq
    /\ sfResp = SfIdle

Init == SfOff /\ PyInit /\ RootIdle

Next ==
    \/ /\ nFrames < MaxFrames
       /\ \E f \in Frames, g \in Gestures,
             wa \in {None, Some(<<>>), Some(WALLET)}, sid \in {None, Some(1)} :
              validate_frame(CONTENTS, f, g, Some(FORGED_CHALLENGE_ID), wa, sid)
    \/ /\ nFrames < MaxFrames
       /\ \E f \in Frames, m2 \in MeshExtents : analyze_frame_api(f, m2)
    \/ /\ nFrames < MaxFrames
       /\ \E f \in Frames : video_stream(f)
    \/ Respond

Spec == Init /\ [][Next]_vars

(***************************************************************************)
(* SpecVerdict: /api/validate over frames with faces and waving hands      *)
(***************************************************************************)
VerdictFrames ==
    { Frame(TRUE, sp, m, Some(HandTopRow(x))) :
        sp \in {SpoofReal, SpoofFake},
        m \in {None, Some(MeshClosedSmile), Some(MeshLeft)},
        x \in {300, 600} }
    \cup { Frame(TRUE, SpoofReal, Some(MeshRight), None) }

ChallengeGestures == { CHALLENGES[c].gesture : c \in 1..Len(CHALLENGES) }

InitLoaded == SfOff /\ PyInit /\ RootIdle /\ ANTI_SPOOF_AVAILABLE

NextVerdict ==
    \/ /\ nFrames < MaxVerdictFrames
       /\ \E f \in VerdictFrames, g \in ChallengeGestures :
              validate_frame(CONTENTS, f, Some(g), None, None, None)
    \/ Respond

SpecVerdict == InitLoaded /\ [][NextVerdict]_vars

(***************************************************************************)
(* SpecObserve: /api/validate of two sessions, every process_frame call    *)
(* recorded                                                                *)
(***************************************************************************)
ObsFrames ==
    { Frame(TRUE, SpoofReal, Some(MeshOpen), None),
      Frame(TRUE, SpoofReal, Some(MeshClosed), None),
      Frame(TRUE, SpoofReal, None, None) }

NextObserve ==
    \/ /\ nFrames < MaxObsFrames
       /\ \E f \in ObsFrames, sid \in 1..MaxSessions :
              validate_frame_obs(CONTENTS, f, Some("blink"), None, None, Some(sid))
    \/ Respond

SpecObserve == InitLoaded /\ [][NextObserve]_vars

(***************************************************************************)
(* SpecWave: /ws/video over frames with a hand, every process_frame call   *)
(* recorded                                                                *)
(***************************************************************************)
WaveFrames ==
    { Frame(TRUE, SpoofReal, None, Some(hd)) :
        hd \in { HandTopRow(300), HandTopRow(600), HandUp(300),
                 HandUp(600), HandDown(300), HandDown(600) } }
    \cup { Frame(TRUE, SpoofReal, None, None) }

NextWave ==
    \/ /\ nFrames < MaxWaveFrames
       /\ \E f \in WaveFrames : video_stream_obs(f)
    \/ Respond

SpecWave == InitLoaded /\ [][NextWave]_vars

(***************************************************************************)
(* SpecRing: a long /ws/video stream of a raised hand that moves with      *)
(* every frame, interrupted a few times                                    *)
(***************************************************************************)
\* The normalised wrist x of the n-th frame: left and right in turn, never the
\* same twice.
XAt(n) == IF n % 2 = 0 THEN 100 + n ELSE 600 + n

\* The recorded frames that interrupt the raised hand.
Interruptions ==
    { i \in 1..Len(hist) : IsNone(hist[i].frame.hand) \/ Get(hist[i].frame.hand) = HandDown(300) }

NextRing ==
    \/ /\ nFrames < MaxRingFrames
       /\ video_stream_obs(Frame(TRUE, SpoofReal, None, Some(HandTopRow(XAt(nFrames)))))
    \/ /\ nFrames < MaxRingFrames
       /\ Cardinality(Interruptions) < MaxInterruptions
       /\ \E hd \in {None, Some(HandDown(300))} :
              video_stream_obs(Frame(TRUE, SpoofReal, None, hd))
    \/ Respond

SpecRing == InitLoaded /\ [][NextRing]_vars

(***************************************************************************)
(* SpecChallenge: /api/challenge and /api/validate                         *)
(***************************************************************************)
SmilingFrame == Frame(TRUE, SpoofReal, Some(MeshClosedSmile), None)

NextChallenge ==
    \/ \E c \in 1..Len(CHALLENGES) : generate_challenge(c)
    \/ Tick
    \/ /\ nFrames < MaxFrames
       /\ \E g \in {"smile", "turn_left"}, sid \in 1..MaxSessions,
             cid \in {FORGED_CHALLENGE_ID} \cup { r.challenge_id : r \in issued } :
              validate_frame(CONTENTS, SmilingFrame, Some(g), Some(cid), Some(WALLET), Some(sid))
    \/ Respond

SpecChallenge == InitLoaded /\ [][NextChallenge]_vars

(***************************************************************************)
(* SpecToken: tokens are created, time passes, tokens are validated and    *)
(* verified                                                                *)
(***************************************************************************)
OTHER_WALLET == <<"0", "x", "c", "d">>
PROOF_HASH == <<"0", "x", "1", "2", "3", "a", "b", "c">>

\* A string that is no JWS at all.
NotAJws == [payload |-> <<>>, signed_with |-> "nobody"]
\* A token with the payload of t signed with another key.
Resigned(t) == [payload |-> t.payload, signed_with |-> "OTHER_KEY"]
\* A token of this key that lacks the proof hash.
NoProofHash ==
    [payload |-> [sub |-> Lower(WALLET), challenge_type |-> "smile", exp |-> HalfDay,
                  verification_type |-> "proof_of_life"],
     signed_with |-> "SECRET_KEY"]

\* The strings a caller may present as a token.
PresentedTokens ==
    { m.token : m \in tokens } \cup { Resigned(m.token) : m \in tokens } \cup {NotAJws, NoProofHash}

NextToken ==
    \/ \E w \in {WALLET, Lower(WALLET)},
          ac \in {None, Some([verification_type |-> "kyc"])} :
           create_token(w, "smile", PROOF_HASH, 1, ac)
    \/ \E t \in PresentedTokens : validate_token_call(t)
    \/ \E t \in PresentedTokens, w \in {WALLET, OTHER_WALLET} : verify_for_minting_call(t, w)
    \/ \E t \in {None} \cup { Some(x) : x \in PresentedTokens },
          w \in {None, Some(<<>>), Some(WALLET), Some(OTHER_WALLET)} : verify_token(t, w)
    \/ TickHalfDay
    \/ Respond

SpecToken == InitLoaded /\ [][NextToken]_vars

(***************************************************************************)
(* SpecStream: one /ws/video connection                                    *)
(***************************************************************************)
\* What a client may send: an image, base64 of bytes that are no image, and text
\* that is no base64.
StreamTexts ==
    { [b64ok |-> TRUE, frame |-> Frame(TRUE, SpoofReal, Some(MeshNeutral), None)],
      [b64ok |-> TRUE, frame |-> Undecodable],
      [b64ok |-> FALSE, frame |-> Undecodable] }

NextStream ==
    \/ ws_accept
    \/ \E t \in StreamTexts : ws_client_send(t.b64ok, t.frame)
    \/ ws_client_disconnect
    \/ ws_iteration
    \/ Respond

SpecStream == InitLoaded /\ [][NextStream]_vars

(***************************************************************************)
(* SpecHash: calls of generate_proof_hash                                  *)
(***************************************************************************)
\* Frame lists, nonces and wallet addresses handed to generate_proof_hash.  A
\* nonce may be empty ("challenge_id or ''").
HashFrames == { <<CONTENTS>>, <<CONTENTS \o <<99>> >>, << <<255, 216>>, <<255>> >> }
HashNonces == { <<>>, <<"c">>, <<"c", "1">> }
HashWallets == { WALLET, Lower(WALLET), <<"1">> \o Lower(WALLET), OTHER_WALLET }

NextHash ==
    \E frames \in HashFrames, nonce \in HashNonces, w \in HashWallets :
        generate_proof_hash_call(frames, nonce, w)

SpecHash == InitLoaded /\ [][NextHash]_vars

(***************************************************************************)
(* SpecServers: the challenge and validate endpoints of the Silent-Face    *)
(* server and of the root server, and /api/challenge of python/server.py   *)
(***************************************************************************)
\* What a model makes of the frames uploaded to the Silent-Face /api/validate.
ValidateOutcomes ==
    { [raised |-> FALSE, scores |-> Vec(<<5, 995, 0>>)],
      [raised |-> FALSE, scores |-> Vec(<<990, 10, 0>>)] }

InitServers == SfInit /\ PyInit /\ RootIdle /\ ANTI_SPOOF_AVAILABLE

NextServers ==
    \/ \E u \in 1..MaxSessions : issue_challenge(u)
    \/ \E decodable \in BOOLEAN, bbox \in {None, Some(<<10, 20, 100, 120>>)},
          outs \in [1..sfModelPaths -> ValidateOutcomes],
          cid \in {None, Some(1)} :
           validate_challenge(decodable, bbox, outs, cid, Some("none"))
    \/ sf_respond
    \/ \E c \in 1..Len(GESTURES), r \in {1000, 9999} : create_challenge(c, r)
    \/ \E f \in {SmilingFrame, Frame(TRUE, SpoofFake, Some(MeshNeutral), None)},
          is_success \in BOOLEAN :
           validate_challenge_endpoint(FORGED_CHALLENGE_ID, f, is_success)
    \/ root_respond
    \/ \E c \in 1..Len(CHALLENGES) : generate_challenge(c)
    \/ Respond

SpecServers == InitServers /\ [][NextServers]_vars

(***************************************************************************)
(* Claims about the frame endpoints (Spec)                                 *)
(***************************************************************************)
\* The response carries the results of process_frame.
HasResults ==
    \/ resp.kind = "validate" /\ resp.decoded
    \/ resp.kind = "analyze" /\ resp.status = 200
    \/ resp.kind = "ws" /\ resp.success

\* The signal of gesture g among the per-frame results.
ClaimedSignal(results, g) ==
    \/ g = "blink" /\ results.blink_detected
    \/ g = "smile" /\ results.smile_detected
    \/ g = "turn_left" /\ results.head_turn_left
    \/ g = "turn_right" /\ results.head_turn_right
    \/ g = "wave" /\ results.wave_detected

\* C1: with the fallback stub in use (ANTI_SPOOF_AVAILABLE = false) the liveness
\* decision is "not live" for every frame: analyze returns passed = false and
\* label "spoof", validate never returns success = true.
C1_StubFailsClosed ==
    (~ANTI_SPOOF_AVAILABLE /\ HasResults) =>
        /\ ~resp.results.liveness
        /\ resp.kind = "analyze" => (~resp.passed /\ resp.label = "spoof")
        /\ resp.kind = "validate" => ~resp.success

\* C10: a validate response carries a token, a proof hash or an expiry only if
\* the frame decoded, success is true (liveness, face and the requested gesture
\* all satisfied) and a wallet address was supplied.
C10_TokenOnlyOnSuccess ==
    resp.kind = "validate" =>
        ((~IsNone(resp.verificationToken) \/ ~IsNone(resp.proofHash) \/ ~IsNone(resp.expiresAt)) =>
            /\ req.frame.decodable
            /\ resp.decoded
            /\ resp.success
            /\ ~IsNone(req.wallet_address) /\ Get(req.wallet_address) # <<>>
            /\ resp.results.liveness
            /\ resp.results.face_detected = Some(TRUE)
            /\ (~IsNone(req.gesture) /\ Get(req.gesture) # "") =>
                   ClaimedSignal(resp.results, Get(req.gesture)))

\* A token has been issued.
C10_Witness ==
    /\ resp.kind = "validate"
    /\ resp.success
    /\ ~IsNone(resp.verificationToken)
    /\ Get(resp.verificationToken).payload.sub = Lower(WALLET)

(***************************************************************************)
(* Claims about the verdict (SpecVerdict)                                  *)
(***************************************************************************)
\* C2: for a decodable frame and a claimed gesture among blink, smile, turn_left,
\* turn_right and wave, success is true iff liveness is true, face_detected is
\* truthy and the signal of exactly the claimed gesture is true.
C2_VerdictIsConjunction ==
    (resp.kind = "validate" /\ resp.decoded /\ ~IsNone(req.gesture)
       /\ Get(req.gesture) \in {"blink", "smile", "turn_left", "turn_right", "wave"}) =>
        resp.success = (/\ resp.results.liveness
                        /\ resp.results.face_detected = Some(TRUE)
                        /\ ClaimedSignal(resp.results, Get(req.gesture)))

\* A wave passes: the fifth frame of an oscillating raised hand, with a live face.
C2_Witness ==
    /\ resp.kind = "validate"
    /\ req.gesture = Some("wave")
    /\ resp.results.wave_detected
    /\ resp.results.liveness
    /\ resp.success

(***************************************************************************)
(* Claims about the gesture history (SpecObserve, SpecWave)                *)
(***************************************************************************)
\* The recorded calls in which detect_blink ran (the frames with a face mesh).
BlinkCalls == SelectSeq(hist, LAMBDA e : ~IsNone(e.frame.mesh))

\* The averaged EAR of a recorded frame is below 0.25.
ClosedIn(e) == Get(e.frame.mesh).left_ear + Get(e.frame.mesh).right_ear < 50

EarsOf(calls) == [i \in 1..Len(calls) |-> Get(calls[i].frame.mesh).left_ear]
EventsOf(calls) == [i \in 1..Len(calls) |-> calls[i].results.blink_detected]

\* C6: detect_blink returns true at a frame iff the eye is closed at it and was
\* not closed at the previously processed frame (open before the first); the EAR
\* sequence 0.30, 0.15, 0.15, 0.30 gives one event, on the second frame; and
\* blink_count is the number of events so far.
C6_BlinkEdgeTriggered ==
    LET calls == BlinkCalls
    IN  /\ \A i \in 1..Len(calls) :
              calls[i].results.blink_detected =
                  (ClosedIn(calls[i]) /\ (i = 1 \/ ~ClosedIn(calls[i - 1])))
        /\ validator.blink_count =
              Cardinality({i \in 1..Len(calls) : calls[i].results.blink_detected})
        /\ validator.prev_eye_closed = (calls # <<>> /\ ClosedIn(calls[Len(calls)]))
        /\ EarsOf(calls) = <<30, 15, 15, 30>> => EventsOf(calls) = <<FALSE, TRUE, FALSE, FALSE>>

\* The scenario of the claim has run: open, closed, closed, open.
C6_Witness ==
    /\ EarsOf(BlinkCalls) = <<30, 15, 15, 30>>
    /\ EventsOf(BlinkCalls) = <<FALSE, TRUE, FALSE, FALSE>>
    /\ validator.blink_count = 1

\* The validator a session would have had if only its own frames had been processed.
RECURSIVE Alone(_, _)
Alone(h, sid) ==
    IF h = <<>> THEN NewValidator
    ELSE LET e    == h[Len(h)]
             prev == Alone(SubSeq(h, 1, Len(h) - 1), sid)
         IN  IF e.session_id = sid
             THEN process_frame(ANTI_SPOOF_AVAILABLE, prev, e.frame).validator
             ELSE prev

\* C8: the blink and wave results of a session's frame are those it would get had
\* the frames of the other sessions never been processed.
C8_SessionIsolation ==
    \A i \in 1..Len(hist) :
        LET e     == hist[i]
            alone == process_frame(ANTI_SPOOF_AVAILABLE,
                                   Alone(SubSeq(hist, 1, i - 1), e.session_id), e.frame).results
        IN  /\ e.results.blink_detected = alone.blink_detected
            /\ e.results.wave_detected = alone.wave_detected

\* The hand of a recorded frame in the pixel coordinates process_frame passes on.
PixelsOf(e) == HandPoints(Get(e.frame.hand), e.frame.w, e.frame.h)

\* Raised as specified: wrist above the frame's mid-height, finger tip above the wrist.
RaisedIn(e) ==
    /\ ~IsNone(e.frame.hand)
    /\ 2 * PixelsOf(e).wrist_y < e.frame.h * PixelScale
    /\ PixelsOf(e).tip_y < PixelsOf(e).wrist_y

\* C7: after at least 5 (and at most 15) frames in which the hand stays raised and
\* the wrist x oscillates with amplitude > max(30, 0.04 * frame width) and at least
\* 2 direction switches, detect_wave returns true on the last frame; if the hand
\* is never raised it returns false on every frame.
C7_WaveDetected ==
    LET n  == Len(hist)
        xs == [i \in 1..n |-> PixelsOf(hist[i]).wrist_x]
    IN  /\ (/\ n >= 5 /\ n <= 15
            /\ \A i \in 1..n : RaisedIn(hist[i])
            /\ WaveAmplitudeOk(xs, hist[n].frame.w)
            /\ Switches(Dirs(xs)) >= 2) => hist[n].results.wave_detected
        /\ (\A i \in 1..n : ~RaisedIn(hist[i])) =>
               (\A i \in 1..n : ~hist[i].results.wave_detected)

(***************************************************************************)
(* Claims about the challenge binding (SpecChallenge)                      *)
(***************************************************************************)
\* C9: validate returns success = true for a session only if a challenge was
\* issued for that session before and the gesture checked is the gesture of that
\* challenge.
C9_ChallengeBinding ==
    (resp.kind = "validate" /\ resp.success) =>
        \E r \in issued :
            /\ Some(r.sessionId) = req.session_id
            /\ Some(r.challenge.gesture) = req.gesture

(***************************************************************************)
(* Claims about the verification tokens (SpecToken)                        *)
(***************************************************************************)
\* validate_token was called at a time before the token's expires-at on the token
\* that the create_verification_token call m (made without additional claims)
\* returned.
RoundTripOf(m) ==
    /\ IsNone(m.additional_claims)
    /\ resp.kind = "validate_token"
    /\ req.token = m.token
    /\ req.now < m.token.payload.exp

\* C11: validate_token on an unexpired token of create_verification_token(identity,
\* challenge_type, proof_hash, session_id) returns a payload whose subject,
\* challenge_type and proof_hash are the values passed to the call, unchanged.
C11_TokenRoundTrip ==
    \A m \in tokens :
        RoundTripOf(m) =>
            /\ resp.out.ok
            /\ resp.out.payload.sub = m.wallet_address
            /\ resp.out.payload.challenge_type = m.challenge_type
            /\ resp.out.payload.proof_hash = m.proof_hash

\* The tokens create_verification_token has returned.
MintedTokens == { m.token : m \in tokens }

\* The call in req presents a token of create_verification_token after its
\* expires-at.
PastExpiry ==
    /\ req.token \in MintedTokens
    /\ "exp" \in DOMAIN req.token.payload
    /\ req.now > req.token.payload.exp

\* validate_token failed with the error of the expired kind / of the invalid kind.
ExpiredKind(out) == ~out.ok /\ out.message = <<"Verification token has expired">>
InvalidKind(out) == ~out.ok /\ out.message[1] = "Invalid verification token: "

CasePairs == { {"A", "a"}, {"B", "b"}, {"C", "c"}, {"D", "d"}, {"E", "e"}, {"F", "f"} }
\* Two strings that are equal ignoring letter case.
EqIgnoreCase(x, y) ==
    /\ Len(x) = Len(y)
    /\ \A i \in 1..Len(x) : x[i] = y[i] \/ {x[i], y[i]} \in CasePairs

\* C13: verify_for_minting never raises, and returns true iff validate_token
\* accepts the token, the subject equals the identity ignoring letter case and
\* verification_type is "proof_of_life".
C13_VerifyForMinting ==
    resp.kind = "verify_for_minting" =>
        LET v == validate_token(req.token, req.now)
        IN  /\ ~resp.out.raised
            /\ resp.out.value <=>
                 /\ v.ok
                 /\ EqIgnoreCase(v.payload.sub, req.wallet_address)
                 /\ "verification_type" \in DOMAIN v.payload
                 /\ v.payload.verification_type = "proof_of_life"

\* verify_for_minting returned true for an identity written in another case than
\* the token's subject.
C13_Witness ==
    /\ resp.kind = "verify_for_minting"
    /\ resp.out.value
    /\ req.wallet_address # req.token.payload.sub

(***************************************************************************)
(* More claims about /api/validate (Spec)                                  *)
(***************************************************************************)
\* The three checks of a validate request, in the order the message lists them:
\* the reason each gives and whether it failed.
Checks ==
    << [reason |-> <<"face not detected">>,
        failed |-> ~Truthy(resp.results.face_detected)],
       [reason |-> <<"liveness check failed">>,
        failed |-> ~resp.results.liveness],
       [reason |-> <<"gesture not detected", IF IsNone(req.gesture) THEN "" ELSE Get(req.gesture)>>,
        failed |-> StrTruthy(req.gesture) /\ ~ClaimedSignal(resp.results, Get(req.gesture))] >>

\* The reasons of the failed checks, in that order.
RECURSIVE FailedReasons(_)
FailedReasons(checks) ==
    IF checks = <<>> THEN <<>>
    ELSE (IF checks[1].failed THEN <<checks[1].reason>> ELSE <<>>) \o FailedReasons(Tail(checks))

\* C14: when validate fails on a decodable frame, its message lists exactly the
\* reasons of the failed checks in the order face, liveness, gesture.
C14_ReasonOrder ==
    (resp.kind = "validate" /\ resp.decoded /\ ~resp.success) =>
        resp.message = FailedReasons(Checks)

\* A failure that lists all three reasons.
C14_Witness ==
    /\ resp.kind = "validate" /\ resp.decoded /\ ~resp.success
    /\ Len(resp.message) = 3
    /\ resp.message[1] = <<"face not detected">>
    /\ resp.message[3][1] = "gesture not detected"

(***************************************************************************)
(* More claims about SpoofService.analyze (SpecSpoof)                      *)
(***************************************************************************)
\* The largest of the three class totals of the request's models.
MaxClassTotal(outs) ==
    Max2(ClassTotal(outs, 0), Max2(ClassTotal(outs, 1), ClassTotal(outs, 2)))

\* C15: with N >= 1 models each returning a distribution that sums to 1, the
\* accumulated vector sums to N, the confidence is the accumulated value of the
\* argmax class divided by N, and it lies between 1/3 and 1.
C15_EnsembleAccumulation ==
    SfVerdict =>
        LET N == sfModelPaths
        IN  /\ N >= 1
            /\ \A k \in 1..N :
                 sfReq.outs[k].scores[0] + sfReq.outs[k].scores[1] + sfReq.outs[k].scores[2] = 1000
            /\ ClassTotal(sfReq.outs, 0) + ClassTotal(sfReq.outs, 1) + ClassTotal(sfReq.outs, 2)
                 = 1000 * N
            /\ sfResp.confNum = MaxClassTotal(sfReq.outs)
            /\ sfResp.confDen = N
            /\ 3 * sfResp.confNum >= 1000 * sfResp.confDen
            /\ sfResp.confNum <= 1000 * sfResp.confDen

\* Two models that disagree on the class were accumulated into one verdict.
C15_Witness ==
    /\ SfVerdict
    /\ sfModelPaths >= 2
    /\ ArgMax(sfReq.outs[1].scores) # ArgMax(sfReq.outs[2].scores)
    /\ sfResp.confNum < 1000 * sfResp.confDen

\* C20: analyze returns a verdict only if every model of model_paths contributed
\* exactly one vector and the divisor is the number of contributions; if a
\* model's inference raises the call ends in an error without label or passed;
\* the model list is never empty.
C20_NoSilentDropOut ==
    /\ sfModelPaths >= 1
    /\ SfVerdict =>
         /\ sfResp.ran = sfModelPaths
         /\ Len(sfResp.per_model) = sfModelPaths
         /\ sfResp.confDen = Len(sfResp.per_model)
         /\ \A k \in 1..sfModelPaths :
              ~sfReq.outs[k].raised /\ sfResp.per_model[k] = sfReq.outs[k].scores
    /\ (/\ SfAnswered
        /\ sfReq.decodable
        /\ ~IsNone(sfReq.bbox)
        /\ Get(sfReq.bbox)[3] * Get(sfReq.bbox)[4] >= MIN_BBOX_AREA
        /\ \E k \in 1..sfModelPaths : sfReq.outs[k].raised) =>
         /\ sfResp.status \in {400, 500}
         /\ "label" \notin DOMAIN sfResp
         /\ "passed" \notin DOMAIN sfResp

\* The second model raised after the first had contributed a high "real" score.
C20_Witness ==
    /\ SfAnswered
    /\ sfModelPaths >= 2
    /\ sfReq.outs[1] = [raised |-> FALSE, scores |-> Vec(<<5, 995, 0>>)]
    /\ sfReq.outs[2].raised
    /\ sfResp.status = 500

(***************************************************************************)
(* Claims about liveness and gestures in python/server.py (Spec)           *)
(***************************************************************************)
\* The total of class c over the softmax vectors of a frame's models.
RECURSIVE VecTotal(_, _)
VecTotal(vs, c) == IF vs = <<>> THEN 0 ELSE vs[1][c] + VecTotal(Tail(vs), c)

\* C17: with the ensemble loaded, the liveness value of a response is true only
\* if the argmax class of the accumulated scores is real and the real total
\* divided by the model count is at least the floor MIN_CONFIDENCE.
C17_LivenessPassedFloor ==
    (HasResults /\ ANTI_SPOOF_AVAILABLE /\ resp.results.liveness) =>
        LET outs == req.frame.spoof.outs
        IN  /\ req.frame.spoof.bbox
            /\ VecTotal(outs, 1) > VecTotal(outs, 0)
            /\ VecTotal(outs, 1) >= VecTotal(outs, 2)
            /\ VecTotal(outs, 1) >= MIN_CONFIDENCE * Len(outs)

\* C19: validate returns success = true only if the request names a gesture of
\* the detector map and the signal of that gesture is true.
C19_GestureMandatory ==
    (resp.kind = "validate" /\ resp.decoded /\ resp.success) =>
        /\ StrTruthy(req.gesture)
        /\ Get(req.gesture) \in {"blink", "smile", "turn_left", "turn_right", "wave"}
        /\ ClaimedSignal(resp.results, Get(req.gesture))

(***************************************************************************)
(* Claims about the challenge and validate endpoints of all three servers  *)
(* (SpecServers)                                                           *)
(***************************************************************************)
\* The fixed catalog of gesture kinds.
Catalog == {"blink", "smile", "turn_left", "turn_right", "wave", "nod"}

\* The response r names a gesture of the catalog and carries the instruction
\* that the table pairs with it.
FromCatalog(r, table) ==
    /\ r.gesture \in Catalog
    /\ \E i \in 1..Len(table) :
          table[i].gesture = r.gesture /\ table[i].instruction = r.instruction

\* A response of the Silent-Face server to the endpoint of the given kind.
SfKind(kind) == sfResp # SfIdle /\ sfReq.kind = kind /\ sfResp.status = 200

\* C16: every challenge an /api/challenge endpoint returns names a gesture of
\* the catalog and carries the instruction paired with that gesture.
C16_ChallengeFromCatalog ==
    /\ resp.kind = "challenge" => FromCatalog(resp.challenge, CHALLENGES)
    /\ rootResp.kind = "challenge" => FromCatalog(rootResp, GESTURES)
    /\ SfKind("challenge") => FromCatalog(sfResp, CHALLENGES) \/ FromCatalog(sfResp, GESTURES)

\* The anti-spoof decision for a frame is "real": a face box is found, the argmax
\* of the summed scores is the real class and its share reaches the floor.
DecisionReal(hasBox, t0, t1, t2, n) ==
    hasBox /\ t1 > t0 /\ t1 >= t2 /\ t1 >= MIN_CONFIDENCE * n

\* C18: the Silent-Face /api/validate and the root server's /api/validate return
\* success = true only for a frame whose anti-spoof decision is "real".
C18_ValidateImpliesLive ==
    /\ (SfKind("validate") /\ sfResp.success) =>
          DecisionReal(~IsNone(sfReq.bbox) /\ ~TooSmall(Get(sfReq.bbox)[3], Get(sfReq.bbox)[4]),
                       ClassTotal(sfReq.outs, 0), ClassTotal(sfReq.outs, 1),
                       ClassTotal(sfReq.outs, 2), Len(sfReq.outs))
    /\ (rootResp.kind = "validate" /\ rootResp.success) =>
          DecisionReal(rootReq.frame.spoof.bbox,
                       VecTotal(rootReq.frame.spoof.outs, 0), VecTotal(rootReq.frame.spoof.outs, 1),
                       VecTotal(rootReq.frame.spoof.outs, 2), Len(rootReq.frame.spoof.outs))

(***************************************************************************)
(* Claims about the wave history (SpecWave, SpecRing)                      *)
(***************************************************************************)
\* C21: after process_frame has handled a frame that shows no raised hand (the
\* hand is lowered, or no hand is detected), the wave history is empty.
C21_WaveHistoryReset ==
    (Len(hist) > 0 /\ ~RaisedIn(hist[Len(hist)])) => validator.wave_x_history = <<>>

\* The recorded calls of detect_wave: the frames in which a hand was detected.
WaveCalls == SelectSeq(hist, LAMBDA e : ~IsNone(e.frame.hand))

\* The hand of a recorded call is raised by the test detect_wave applies to the
\* coordinates it is given.
RaisedAsTested(e) ==
    /\ 2 * PixelsOf(e).wrist_y < PixelScale
    /\ PixelsOf(e).tip_y < PixelsOf(e).wrist_y

\* The number of calls at the end of the sequence that saw a raised hand.
RECURSIVE TrailingRaised(_)
TrailingRaised(calls) ==
    IF calls = <<>> \/ ~RaisedAsTested(calls[Len(calls)]) THEN 0
    ELSE 1 + TrailingRaised(SubSeq(calls, 1, Len(calls) - 1))

\* The wrist x of the last k calls, oldest first.
LastWristX(calls, k) ==
    [i \in 1..k |-> PixelsOf(calls[Len(calls) - k + i]).wrist_x]

C23_FixedClaims ==
    \A m \in tokens :
        LET payload == m.token.payload
        IN  /\ payload.sub = Lower(m.wallet_address)
            /\ payload.verification_type = "proof_of_life"
            /\ payload.challenge_type = m.challenge_type
            /\ payload.proof_hash = m.proof_hash
            /\ payload.jti = m.session_id
            /\ payload.exp = payload.iat + 24 * 3600

(***************************************************************************)
(* Claims about the proof hash (SpecHash)                                  *)
(***************************************************************************)
\* C24: two calls of generate_proof_hash with the same frames and nonce and with
\* identities that are equal ignoring letter case return the same hash, and the
\* calls change nothing else.
C24_ProofHashDeterministic ==
    /\ \A i, j \in 1..Len(hist) :
          (/\ hist[i].frames = hist[j].frames
           /\ hist[i].nonce = hist[j].nonce
           /\ EqIgnoreCase(hist[i].wallet_address, hist[j].wallet_address)) =>
              hist[i].hash = hist[j].hash
    /\ tokens = {} /\ issued = {} /\ validator = NewValidator /\ resp = Idle

\* Two calls whose identities differ in letter case only returned one hash.
C24_Witness ==
    \E i, j \in 1..Len(hist) :
        /\ hist[i].frames = hist[j].frames
        /\ hist[i].nonce = hist[j].nonce
        /\ hist[i].wallet_address # hist[j].wallet_address
        /\ EqIgnoreCase(hist[i].wallet_address, hist[j].wallet_address)
        /\ hist[i].hash = hist[j].hash

\* The frame bytes of a call, as one byte string.
FrameBytes(e) == ConcatAll(e.frames)

\* C25: two calls that differ in the frame bytes, in the nonce or in the
\* lowercased identity feed different byte streams to the hash.
C25_ProofHashBinding ==
    \A i, j \in 1..Len(hist) :
        (\/ FrameBytes(hist[i]) # FrameBytes(hist[j])
         \/ hist[i].nonce # hist[j].nonce
         \/ ~EqIgnoreCase(hist[i].wallet_address, hist[j].wallet_address)) =>
            hist[i].hash # hist[j].hash

(***************************************************************************)
(* Claims about the challenge nonce (SpecChallenge)                        *)
(***************************************************************************)
\* C26: two distinct calls of the challenge endpoint (told apart by the session
\* id each call draws) return different challenge_id values.
C26_ChallengeIdUnique ==
    \A r1, r2 \in issued :
        r1.sessionId # r2.sessionId => r1.challenge_id # r2.challenge_id

(***************************************************************************)
(* Claims about the reasons of a failed validation (Spec)                  *)
(***************************************************************************)
\* The response of /api/validate to a decodable frame that failed.
FailedValidate == resp.kind = "validate" /\ resp.decoded /\ ~resp.success

\* The reasons validate_frame names.
NamedReason(r) ==
    \/ r = <<"face not detected">>
    \/ r = <<"liveness check failed">>
    \/ (Len(r) = 2 /\ r[1] = "gesture not detected")

\* C28: a failed validation of a decodable frame names at least one of the three
\* reasons, and never falls back to 'unspecified validation error'.
C28_ReasonsComplete ==
    FailedValidate =>
        /\ \E i \in 1..Len(resp.message) : NamedReason(resp.message[i])
        /\ \A i \in 1..Len(resp.message) : resp.message[i] # <<"unspecified validation error">>

\* A live face failed on the gesture alone.
C28_Witness ==
    /\ FailedValidate
    /\ resp.results.liveness /\ Truthy(resp.results.face_detected)
    /\ Len(resp.message) = 1 /\ resp.message[1][1] = "gesture not detected"

(***************************************************************************)
(* Claims about input that is no image (Spec)                              *)
(***************************************************************************)
\* A frame handler has just answered a request whose bytes decode to no image.
AnsweredUndecodable ==
    /\ resp.kind \in {"validate", "analyze", "ws"}
    /\ ~req.frame.decodable

\* The answer is a failure: HTTP 400 from /analyze, success false and no token
\* from /api/validate, success false from the stream.
IsFailure(r) ==
    CASE r.kind = "analyze"  -> r.status = 400
      [] r.kind = "validate" -> ~r.success /\ r.verificationToken = None
      [] r.kind = "ws"       -> ~r.success
      [] OTHER               -> FALSE

\* C29: a step in which validate, analyze or the stream handler answers bytes
\* that decode to no image answers with a failure, mints no token, and leaves
\* prev_eye_closed, blink_count and the wave history as they were.
C29_UndecodableNoEffect ==
    [][ (resp = Idle /\ AnsweredUndecodable') =>
            /\ IsFailure(resp')
            /\ tokens' = tokens
            /\ validator'.prev_eye_closed = validator.prev_eye_closed
            /\ validator'.blink_count = validator.blink_count
            /\ validator'.wave_x_history = validator.wave_x_history ]_vars

\* The stream answered an undecodable frame while an eye was recorded closed and
\* the wave history held a sample.
C29_Witness ==
    /\ AnsweredUndecodable
    /\ resp.kind = "ws"
    /\ validator.prev_eye_closed
    /\ validator.wave_x_history # <<>>

(***************************************************************************)
(* Claims about the stream (SpecStream)                                    *)
(***************************************************************************)
\* C27: on one connection the frames are received in arrival order, every
\* received frame has exactly one reply and the replies are in the order of the
\* frames; no frame ends the stream (only the client's disconnect does); the
\* connection is closed at most once, and once when the loop has ended.
C27_StreamingOrder ==
    /\ \A i \in 1..Len(ws.received) : ws.received[i].seq = i
    /\ Len(ws.sent) = Len(ws.received)
    /\ \A i \in 1..Len(ws.sent) : ws.sent[i].seq = ws.received[i].seq
    /\ \A i \in 1..Len(ws.sent) :
          ws.sent[i].success = ws.received[i].frame.decodable
    /\ ws.state = "closed" => ws.cause = "disconnect"
    /\ ws.closes = IF ws.state = "closed" THEN 1 ELSE 0

====
